---- MODULE Spec2Model ----
(***************************************************************************)
(* Polly work flow of polly/sujingqiao: the legacy driver (worker.cpp,     *)
(* main and the five step functions) and the pass pipeline (worker2.cpp,   *)
(* registerPollyPasses and the four passes).                               *)
(*                                                                         *)
(* A statement instance is <<i, j, k>>: the iteration vector [i,j] of the  *)
(* statement domain { [i,j] : 0 <= i < N and 0 <= j < M } and the position *)
(* k of the statement in the SCoP.  A schedule maps every instance to a    *)
(* timestamp vector.                                                       *)
(***************************************************************************)
EXTENDS Integers, Sequences, FiniteSets

VARIABLES
    mode,       \* "main": worker.cpp main(); "pass": worker2.cpp pass pipeline
    pc,         \* next step of main(); "pm" while the pass manager runs
    Name,       \* pipeline name handed to the parsing callback
    queue,      \* passes the FunctionPassManager still has to run
    eligible,   \* isEligibleForScop(F)
    loops,      \* per loop of F: SD.isScop(Loop) / isAffineLoop(L)
    insts,      \* instructions of the loop body, in program order
    N, M,       \* parameters of the domain 0 <= i < N, 0 <= j < M
    tile,       \* tile sizes handed to isl_schedule_node_band_tile
    hasScop,    \* a Scop exists (getFirstScop / "polly.scop" metadata)
    stmts,      \* statements of the Scop, each a sequence of accesses
    deps,       \* DependenceInfo: [RAW, WAW, WAR]
    schedule,   \* S->getSchedule()
    ast,        \* loop nest produced by code generation
    trace,      \* steps executed so far, in order
    preserved   \* PreservedAnalyses returned by each transform pass

vars == <<mode, pc, Name, queue, eligible, loops, insts, N, M, tile, hasScop,
          stmts, deps, schedule, ast, trace, preserved>>

(***************************************************************************)
(* Bounds of the model.                                                    *)
(***************************************************************************)
MaxExtent == 10     \* largest N or M of an engine input
MaxPoints == 10     \* largest N * M of an engine input
MaxStmts  == 2      \* statements of an engine input
MaxTile   == 2      \* largest tile size of an engine input
MaxInsts  == 4      \* instructions of a loop body (pipelines)
MaxDim    == 4      \* largest N or M of a pipeline input
MaxLoops  == 1      \* loops of the function (pipelines)

(***************************************************************************)
(* Program constants.                                                      *)
(***************************************************************************)
TileSizeI == 32
TileSizeJ == 32

(***************************************************************************)
(* Accesses, statements, instances.                                        *)
(***************************************************************************)
Access(t, a, x, y) == [type |-> t, arr |-> a, di |-> x, dj |-> y]

\* instances of the statements S, each with the iteration domain
\* { [i,j] : 0 <= i < N and 0 <= j < M }
Instances(S, n, m) == { <<i, j, k>> : i \in 0 .. n - 1, j \in 0 .. m - 1, k \in 1 .. Len(S) }

\* array element touched by access a of instance x
Elem(x, a) == <<a.arr, x[1] + a.di, x[2] + a.dj>>

\* lexicographic order on vectors of equal length
LexLess(a, b) ==
    \E p \in 1 .. Len(a) :
        /\ \A q \in 1 .. p - 1 : a[q] = b[q]
        /\ a[p] < b[p]

\* position of an access in the original execution: loop i, loop j, the
\* statement, and within one statement instance the reads before the write
Phase(a) == IF a.type = "READ" THEN 0 ELSE 1
Stamp(e) == <<e.inst[1], e.inst[2], e.inst[3], Phase(e.acc)>>
Before(e, f) == LexLess(Stamp(e), Stamp(f))

Events(S, n, m, t) ==
    UNION { { [inst |-> x, acc |-> S[x[3]][p]] :
                p \in { q \in 1 .. Len(S[x[3]]) : S[x[3]][q].type = t } } :
            x \in Instances(S, n, m) }

SameElem(e, f) == Elem(e.inst, e.acc) = Elem(f.inst, f.acc)

\* every earlier write to the element, dominated or not
AllEarlierWrites(e, W) == { w \in W : SameElem(w, e) /\ Before(w, e) }

\* writes to the element of e that precede e and are not followed by a later
\* such write
LastWrites(e, W) ==
    LET c == { w \in W : SameElem(w, e) /\ Before(w, e) }
    IN  { w \in c : \A v \in c : ~ Before(w, v) }

\* writes to the element of e that follow e and are not preceded by an
\* earlier such write
NextWrites(e, W) ==
    LET c == { w \in W : SameElem(w, e) /\ Before(e, w) }
    IN  { w \in c : \A v \in c : ~ Before(v, w) }

Edge(s, t) == [src |-> s.inst, tgt |-> t.inst, elem |-> Elem(t.inst, t.acc)]

RAWDependences(S, n, m) ==
    LET W == Events(S, n, m, "WRITE")
    IN  UNION { { Edge(w, r) : w \in LastWrites(r, W) } : r \in Events(S, n, m, "READ") }

WAWDependences(S, n, m) ==
    LET W == Events(S, n, m, "WRITE")
    IN  UNION { { Edge(w, t) : w \in LastWrites(t, W) } : t \in W }

WARDependences(S, n, m) ==
    LET W == Events(S, n, m, "WRITE")
    IN  UNION { { Edge(r, w) : w \in NextWrites(r, W) } : r \in Events(S, n, m, "READ") }

NoDependences == [RAW |-> {}, WAW |-> {}, WAR |-> {}]

\* DepInfo.analyze() and the three getters
analyze(S, n, m) ==
    [RAW |-> RAWDependences(S, n, m),
     WAW |-> WAWDependences(S, n, m),
     WAR |-> WARDependences(S, n, m)]

getAllDependences(D) == D.RAW \cup D.WAW \cup D.WAR

(***************************************************************************)
(* Schedules.  band is <<>> for an untiled schedule and the tile sizes     *)
(* <<Ti, Tj>> once the band [i,j] has been tiled.                          *)
(***************************************************************************)
NoSchedule == [band |-> <<>>, time |-> <<>>]

\* buildInitialSchedule(S): { [i,j] -> [i,j] }, statements in source order
buildInitialSchedule(S, n, m) ==
    [band |-> <<>>,
     time |-> [x \in Instances(S, n, m) |-> <<x[1], x[2], x[3]>>]]

\* point coordinates placed before the tile coordinates
TileVectorPointFirst(t, Ti, Tj) ==
    <<t[1] % Ti, t[2] % Tj, t[1] \div Ti, t[2] \div Tj>> \o SubSeq(t, 3, Len(t))

\* tile coordinates of j placed before those of i
TileVectorSwapped(t, Ti, Tj) ==
    <<t[2] \div Tj, t[1] \div Ti, t[2] % Tj, t[1] % Ti>> \o SubSeq(t, 3, Len(t))

\* { [i,j] -> [floor(i/Ti), floor(j/Tj), i%Ti, j%Tj] } on the band [i,j]
TileVector(t, Ti, Tj) ==
    <<t[1] \div Ti, t[2] \div Tj, t[1] % Ti, t[2] % Tj>> \o SubSeq(t, 3, Len(t))

isl_schedule_node_band_tile(sch, Ti, Tj) ==
    [band |-> <<Ti, Tj>>,
     time |-> [x \in DOMAIN sch.time |-> TileVector(sch.time[x], Ti, Tj)]]

\* source not after target, and at the same timestamp only the same instance
Respects(sch, d) ==
    \/ d.src = d.tgt
    \/ LexLess(sch.time[d.src], sch.time[d.tgt])

isl_schedule_fulfills_dependences(sch, D) == \A d \in D : Respects(sch, d)

\* the tiled schedule installed without looking at the check
ValidatedAlways(Current, Optimized, D) == Optimized

\* the current schedule installed whatever the check says
ValidatedNever(Current, Optimized, D) == Current

\* steps 3 and 4 of optimizeSchedule: keep the tiled schedule only if it
\* fulfils all dependences, otherwise go back to the current one
Validated(Current, Optimized, D) ==
    IF ~ isl_schedule_fulfills_dependences(Optimized, D)
    THEN Current
    ELSE Optimized

\* tile sizes the isl scheduler may decide on
TileChoices == (1 .. MaxTile) \X (1 .. MaxTile)

\* isl's scheduler: some schedule of the domain, tiled or not, that is legal
\* for the dependences it is given
isl_schedule_from_domain_and_dependences(S, n, m, D) ==
    LET init == buildInitialSchedule(S, n, m)
        cand == {init} \cup { isl_schedule_node_band_tile(init, T[1], T[2]) : T \in TileChoices }
    IN  { c \in cand : isl_schedule_fulfills_dependences(c, D) }

(***************************************************************************)
(* Generated code: a loop nest over the statement bodies 1 .. body.        *)
(*   for (ti = 0; ti < N; ti += Ti)                                        *)
(*     for (tj = 0; tj < M; tj += Tj)                                      *)
(*       for (ri = ti; ri < ti+Ti; ri++)                                   *)
(*         for (rj = tj; rj < tj+Tj; rj++)                                 *)
(* An untiled schedule gives the loops of the domain (Ti = Tj = 1).  With  *)
(* clamp the point loops also stop at the domain bound,                    *)
(* ri < min(ti+Ti, N).                                                     *)
(***************************************************************************)
NoAst == [kind |-> "none", sizes |-> <<>>, extent |-> <<>>, body |-> 0, clamp |-> FALSE]

Loops(sch, n, m, K, cl) ==
    [kind |-> "loops",
     sizes |-> IF sch.band = <<>> THEN <<1, 1>> ELSE sch.band,
     extent |-> <<n, m>>, body |-> K, clamp |-> cl]

\* generateCode: the loop nest of the final output, point loops bounded by
\* ti+Ti and tj+Tj
LoopNest(sch, n, m, K) == Loops(sch, n, m, K, FALSE)

\* values of a tile loop  for (t = 0; t < bound; t += step)
TileOrigins(bound, step) == { t \in 0 .. bound - 1 : t % step = 0 }

\* values of the point loop of the tile at t
Points(t, bound, step, cl) ==
    { c \in t .. t + step - 1 : cl => c < bound }

\* how often the loops of one dimension reach coordinate c
Visits(c, bound, step, cl) ==
    Cardinality({ t \in TileOrigins(bound, step) : c \in Points(t, bound, step, cl) })

\* coordinates the loops of one dimension reach
Reach(bound, step, cl) ==
    UNION { Points(t, bound, step, cl) : t \in TileOrigins(bound, step) }

\* number of executions of statement instance <<i, j, k>> by the loop nest
Executions(a, x) ==
    IF a.kind = "none" \/ x[3] \notin 1 .. a.body
    THEN 0
    ELSE Visits(x[1], a.extent[1], a.sizes[1], a.clamp)
             * Visits(x[2], a.extent[2], a.sizes[2], a.clamp)

\* every instance the loop nest touches
Executed(a) ==
    IF a.kind = "none"
    THEN {}
    ELSE Reach(a.extent[1], a.sizes[1], a.clamp)
             \X Reach(a.extent[2], a.sizes[2], a.clamp) \X (1 .. a.body)

(***************************************************************************)
(* Inputs.                                                                 *)
(***************************************************************************)
SeqsUpTo(S, n) == UNION { [1 .. k -> S] : k \in 0 .. n }

Inst(o, a, x, y) == [op |-> o, arr |-> a, di |-> x, dj |-> y]

\* memory instructions of a loop body: C[i][j] = ..., ... = C[i][j], ... = A[i][j]
InstKinds == { Inst("store", "C", 0, 0), Inst("load", "C", 0, 0), Inst("load", "A", 0, 0) }

Bodies == SeqsUpTo(InstKinds, MaxInsts)

LoopSeqs == SeqsUpTo(BOOLEAN, MaxLoops)

\* statements of an engine input
Zero  == << Access("WRITE", "C", 0, 0) >>                                  \* C[i][j] = 0
Accum == << Access("READ", "C", 0, 0), Access("READ", "A", 0, 0),
            Access("WRITE", "C", 0, 0) >>                                  \* C[i][j] += A[i][j]
Carry == << Access("READ", "C", -1, 0), Access("WRITE", "C", 0, 0) >>      \* C[i][j] = C[i-1][j]
Skew  == << Access("READ", "C", -1, 1), Access("WRITE", "C", 0, 0) >>      \* C[i][j] = C[i-1][j+1]
Ahead == << Access("READ", "C", 1, 0), Access("WRITE", "C", 0, 0) >>       \* C[i][j] = C[i+1][j]

StmtShapes == { Zero, Accum, Carry, Skew, Ahead }

Programs == SeqsUpTo(StmtShapes, MaxStmts) \ { <<>> }

Shapes == { s \in (1 .. MaxExtent) \X (1 .. MaxExtent) : s[1] * s[2] <= MaxPoints }

(***************************************************************************)
(* worker.cpp: main() and its five steps.                                  *)
(***************************************************************************)
Step(name) == trace' = Append(trace, name)

\* step 1: a Scop is created for every loop SD.isScop accepts
detectScops ==
    /\ mode = "main" /\ pc = "detectScops"
    /\ hasScop' = (\E l \in 1 .. Len(loops) : loops[l])
    /\ pc' = "buildScop"
    /\ Step("detectScops")
    /\ UNCHANGED <<mode, Name, queue, eligible, loops, insts, N, M, tile,
                   stmts, deps, schedule, ast, preserved>>

\* the statement buildScop creates for a store: writes C[i,j], reads A[i,j]
StoreStmt == << Access("WRITE", "C", 0, 0), Access("READ", "A", 0, 0) >>

Stores(I) == { p \in 1 .. Len(I) : I[p].op = "store" }

\* the p-th smallest element of a set of numbers
Nth(P, p) == CHOOSE x \in P : Cardinality({ y \in P : y < x }) = p - 1

\* step 2: one ScopStmt per StoreInst of the basic blocks of the Scop
ScopStmts(I) == [k \in 1 .. Cardinality(Stores(I)) |-> StoreStmt]

buildScop ==
    /\ mode = "main" /\ pc = "buildScop"
    /\ hasScop
    /\ stmts' = ScopStmts(insts)
    /\ pc' = "analyzeDependencies"
    /\ Step("buildScop")
    /\ UNCHANGED <<mode, Name, queue, eligible, loops, insts, N, M, tile,
                   hasScop, deps, schedule, ast, preserved>>

\* step 3
analyzeDependencies ==
    /\ mode = "main" /\ pc = "analyzeDependencies"
    /\ deps' = analyze(stmts, N, M)
    /\ pc' = "optimizeSchedule"
    /\ Step("analyzeDependencies")
    /\ UNCHANGED <<mode, Name, queue, eligible, loops, insts, N, M, tile,
                   hasScop, stmts, schedule, ast, preserved>>

\* step 4: tile the initial schedule, validate, fall back, setSchedule
optimizeSchedule ==
    /\ mode = "main" /\ pc = "optimizeSchedule"
    /\ LET CurrentSchedule == buildInitialSchedule(stmts, N, M)
           Optimized == isl_schedule_node_band_tile(CurrentSchedule, tile[1], tile[2])
       IN  schedule' = Validated(CurrentSchedule, Optimized, getAllDependences(deps))
    /\ pc' = "generateCode"
    /\ Step("optimizeSchedule")
    /\ UNCHANGED <<mode, Name, queue, eligible, loops, insts, N, M, tile,
                   hasScop, stmts, deps, ast, preserved>>

\* step 5
generateCode ==
    /\ mode = "main" /\ pc = "generateCode"
    /\ ast' = LoopNest(schedule, N, M, Len(stmts))
    /\ pc' = "done"
    /\ Step("generateCode")
    /\ UNCHANGED <<mode, Name, queue, eligible, loops, insts, N, M, tile,
                   hasScop, stmts, deps, schedule, preserved>>

(***************************************************************************)
(* worker2.cpp: the pass pipeline.                                         *)
(***************************************************************************)
\* the optimizer registered ahead of the dependence analysis
PollyPipelineSwapped ==
    << "BuildScopPass", "OptimizeSchedulePass", "DependenceAnalysisPass", "CodeGenPass" >>

PollyPipeline ==
    << "BuildScopPass", "DependenceAnalysisPass", "OptimizeSchedulePass", "CodeGenPass" >>

registerPollyPasses ==
    /\ mode = "pass" /\ pc = "register"
    /\ queue' = IF Name = "polly-scop" THEN PollyPipeline ELSE <<>>
    /\ pc' = "pm"
    /\ UNCHANGED <<mode, Name, eligible, loops, insts, N, M, tile, hasScop,
                   stmts, deps, schedule, ast, trace, preserved>>

\* the pass manager runs the head of the queue
Runs(pass) == mode = "pass" /\ pc = "pm" /\ queue # <<>> /\ Head(queue) = pass

Ran(pass) == queue' = Tail(queue) /\ Step(pass)

Report(pass, pa) == preserved' = Append(preserved, [pass |-> pass, result |-> pa])

\* detection that skips the eligibility test
ScopDetectionPass_runAnyFunction(el, L) ==
    IF \E l \in 1 .. Len(L) : L[l]
    THEN Nth({ l \in 1 .. Len(L) : L[l] }, 1)
    ELSE 0

\* ScopDetectionPass::run: the first affine loop, 0 for std::nullopt
ScopDetectionPass_run(el, L) ==
    IF ~ el
    THEN 0
    ELSE IF \E l \in 1 .. Len(L) : L[l]
         THEN Nth({ l \in 1 .. Len(L) : L[l] }, 1)
         ELSE 0

\* one MemoryAccess per load or store of the loop
buildAccessMap(I) ==
    << Access(IF I.op = "store" THEN "WRITE" ELSE "READ", I.arr, I.di, I.dj) >>

MemInsts(I) == { p \in 1 .. Len(I) : I[p].op \in {"store", "load"} }

ScopAccesses(I) ==
    [k \in 1 .. Cardinality(MemInsts(I)) |-> buildAccessMap(I[Nth(MemInsts(I), k)])]

BuildScopPass_run ==
    /\ Runs("BuildScopPass")
    /\ IF ScopDetectionPass_run(eligible, loops) = 0
       THEN /\ Report("BuildScopPass", "all")
            /\ UNCHANGED <<hasScop, stmts, schedule>>
       ELSE /\ hasScop' = TRUE
            /\ stmts' = ScopAccesses(insts)
            /\ schedule' = buildInitialSchedule(ScopAccesses(insts), N, M)
            /\ Report("BuildScopPass", "none")
    /\ Ran("BuildScopPass")
    /\ UNCHANGED <<mode, pc, Name, eligible, loops, insts, N, M, tile, deps, ast>>

DependenceAnalysisPass_run ==
    /\ Runs("DependenceAnalysisPass")
    /\ deps' = IF ~ hasScop THEN NoDependences ELSE analyze(stmts, N, M)
    /\ Ran("DependenceAnalysisPass")
    /\ UNCHANGED <<mode, pc, Name, eligible, loops, insts, N, M, tile, hasScop,
                   stmts, schedule, ast, preserved>>

OptimizeSchedulePass_run ==
    /\ Runs("OptimizeSchedulePass")
    /\ IF ~ hasScop
       THEN /\ Report("OptimizeSchedulePass", "all")
            /\ UNCHANGED schedule
       ELSE /\ \E Optimized \in isl_schedule_from_domain_and_dependences(
                                    stmts, N, M, getAllDependences(deps)) :
                  schedule' = Optimized
            /\ Report("OptimizeSchedulePass", "none")
    /\ Ran("OptimizeSchedulePass")
    /\ UNCHANGED <<mode, pc, Name, eligible, loops, insts, N, M, tile, hasScop,
                   stmts, deps, ast>>

\* the loop nest isl generates for a schedule, point loops clamped to the
\* domain
generateLLVMFromAST(sch, n, m, K) == Loops(sch, n, m, K, TRUE)

CodeGenPass_run ==
    /\ Runs("CodeGenPass")
    /\ IF ~ hasScop
       THEN /\ Report("CodeGenPass", "all")
            /\ UNCHANGED ast
       ELSE /\ ast' = generateLLVMFromAST(schedule, N, M, Len(stmts))
            /\ Report("CodeGenPass", "none")
    /\ Ran("CodeGenPass")
    /\ UNCHANGED <<mode, pc, Name, eligible, loops, insts, N, M, tile, hasScop,
                   stmts, deps, schedule>>

(***************************************************************************)
(* Spec: both programs, from their start.                                  *)
(***************************************************************************)
Fresh ==
    /\ hasScop = FALSE /\ stmts = <<>> /\ deps = NoDependences
    /\ schedule = NoSchedule /\ ast = NoAst /\ trace = <<>> /\ preserved = <<>>

InitMain ==
    /\ mode = "main" /\ pc = "detectScops"
    /\ Name = "" /\ queue = <<>> /\ eligible = TRUE
    /\ loops \in { L \in LoopSeqs : \E l \in 1 .. Len(L) : L[l] }
    /\ insts \in Bodies
    /\ N \in 1 .. MaxDim /\ M \in 1 .. MaxDim
    /\ tile = <<TileSizeI, TileSizeJ>>
    /\ Fresh

InitPass ==
    /\ mode = "pass" /\ pc = "register"
    /\ Name \in {"polly-scop", "polly"} /\ queue = <<>>
    /\ eligible \in BOOLEAN
    /\ loops \in LoopSeqs
    /\ insts \in Bodies
    /\ N \in 1 .. MaxDim /\ M \in 1 .. MaxDim
    /\ tile = <<TileSizeI, TileSizeJ>>
    /\ Fresh

Init == InitMain \/ InitPass

Next ==
    \/ detectScops
    \/ buildScop
    \/ analyzeDependencies
    \/ optimizeSchedule
    \/ generateCode
    \/ registerPollyPasses
    \/ BuildScopPass_run
    \/ DependenceAnalysisPass_run
    \/ OptimizeSchedulePass_run
    \/ CodeGenPass_run

Spec == Init /\ [][Next]_vars

(***************************************************************************)
(* SpecSynth: the dependence and scheduling steps entered with any model   *)
(* (statements, domain) and, for optimizeSchedule, any tile sizes.         *)
(***************************************************************************)
InitSynth ==
    /\ stmts \in Programs
    /\ \E s \in Shapes : N = s[1] /\ M = s[2]
    /\ Name = "polly-scop" /\ eligible = TRUE /\ loops = <<TRUE>> /\ insts = <<>>
    /\ hasScop = TRUE /\ deps = NoDependences /\ ast = NoAst
    /\ trace = <<>> /\ preserved = <<>>
    /\ \/ /\ mode = "main" /\ pc = "analyzeDependencies" /\ queue = <<>>
          /\ tile \in TileChoices
          /\ schedule = NoSchedule
       \/ /\ mode = "pass" /\ pc = "pm"
          /\ queue = SubSeq(PollyPipeline, 2, 4)
          /\ tile = <<TileSizeI, TileSizeJ>>
          /\ schedule = buildInitialSchedule(stmts, N, M)

NextSynth ==
    \/ analyzeDependencies
    \/ optimizeSchedule
    \/ generateCode
    \/ DependenceAnalysisPass_run
    \/ OptimizeSchedulePass_run
    \/ CodeGenPass_run

SpecSynth == InitSynth /\ [][NextSynth]_vars

(***************************************************************************)
(* Properties.                                                             *)
(***************************************************************************)
Done(step) == \E p \in 1 .. Len(trace) : trace[p] = step

ScheduleInstalled == Done("optimizeSchedule") \/ (Done("OptimizeSchedulePass") /\ hasScop)

Analyzed == Done("analyzeDependencies") \/ (Done("DependenceAnalysisPass") /\ hasScop)

\* schedule(src) <= schedule(tgt), equal only for one and the same instance
Legal(sch, D) ==
    \A d \in D :
        /\ ~ LexLess(sch.time[d.tgt], sch.time[d.src])
        /\ sch.time[d.src] = sch.time[d.tgt] => d.src = d.tgt

InitialSchedule == buildInitialSchedule(stmts, N, M)

TiledSchedule == isl_schedule_node_band_tile(InitialSchedule, tile[1], tile[2])

\* C1: once schedule optimization has finished, on either path, the installed
\* schedule orders the source of every RAW/WAW/WAR dependence of the program
\* no later than its target, and at the same timestamp only if both are the
\* same instance.
C1_LegalitySoundness ==
    ScheduleInstalled => Legal(schedule, getAllDependences(analyze(stmts, N, M)))

\* optimizeSchedule fell back: the tiled schedule breaks a dependence
\* between two different instances
C1_Witness ==
    /\ mode = "main" /\ Done("optimizeSchedule")
    /\ ~ Legal(TiledSchedule, getAllDependences(deps))
    /\ \E d \in getAllDependences(deps) : d.src # d.tgt

\* C2: after optimizeSchedule, the installed schedule is exactly the tiled
\* one if the tiled one is legal for the original dependences, and otherwise
\* exactly the schedule before tiling (same timestamp for every instance, no
\* tiled band); and optimizeSchedule can always run once the dependences are
\* there.
C2_ValidateOrDiscard ==
    /\ (mode = "main" /\ Done("optimizeSchedule")) =>
          IF Legal(TiledSchedule, getAllDependences(deps))
          THEN schedule = TiledSchedule
          ELSE /\ schedule.band = <<>>
               /\ DOMAIN schedule.time = Instances(stmts, N, M)
               /\ \A x \in Instances(stmts, N, M) :
                      schedule.time[x] = InitialSchedule.time[x]
    /\ (mode = "main" /\ pc = "optimizeSchedule") => ENABLED optimizeSchedule

\* the check failed and the transformation was discarded
C2_Witness ==
    /\ mode = "main" /\ pc = "generateCode"
    /\ ~ Legal(TiledSchedule, getAllDependences(deps))
    /\ schedule = InitialSchedule

Reads == Events(stmts, N, M, "READ")
Writes == Events(stmts, N, M, "WRITE")
\* writes of the element r reads that come before r in the original order
Prior(r) == { w \in Writes : Elem(w.inst, w.acc) = Elem(r.inst, r.acc) /\ Before(w, r) }
\* RAW edges into read r for the element it reads
RawInto(r) == { d \in deps.RAW : d.tgt = r.inst /\ d.elem = Elem(r.inst, r.acc) }

\* C3: in the RAW relation every read of an element that an earlier write
\* wrote has exactly one edge, from the latest such write; a read of an
\* element no earlier write wrote has none.

C3_LastWrite ==
    Analyzed =>
        \A r \in Reads :
            IF Prior(r) = {}
            THEN RawInto(r) = {}
            ELSE /\ Cardinality(RawInto(r)) = 1
                 /\ \A d \in RawInto(r) :
                        /\ d.src \in { w.inst : w \in Prior(r) }
                        /\ \A w \in Prior(r) : ~ LexLess(d.src, w.inst)

\* a read reached by two earlier writes of its element
C3_Witness ==
    /\ Analyzed
    /\ \E r \in Reads : Cardinality(Prior(r)) >= 2 /\ RawInto(r) # {}

\* C4: the generated loop nest executes every instance of every statement
\* domain exactly once and nothing outside the domains.
C4_Complete ==
    ast.kind # "none" =>
        \A x \in Executed(ast) \cup Instances(stmts, N, M) :
            Executions(ast, x) = IF x \in Instances(stmts, N, M) THEN 1 ELSE 0

\* distance of a dependence in the band [i,j]
Distance(d) == <<d.tgt[1] - d.src[1], d.tgt[2] - d.src[2]>>

\* no dependence goes backwards in a dimension of the band
NonNegative(D) == \A d \in D : Distance(d)[1] >= 0 /\ Distance(d)[2] >= 0

\* every dependence between two given statements has one distance vector
Uniform(D) ==
    \A d \in D, e \in D :
        (d.src[3] = e.src[3] /\ d.tgt[3] = e.tgt[3]) => Distance(d) = Distance(e)

\* C5 as stated: a band whose dependences are all uniform is legal to tile
\* with any positive tile sizes.
C5_UniformTilable ==
    (mode = "main" /\ Analyzed) =>
        \A k \in { deps.RAW, deps.WAW, deps.WAR } :
            Uniform(k) => Legal(TiledSchedule, k)

\* C5 amended: a band whose dependences all have a distance vector without a
\* negative component is legal to tile with any positive tile sizes, tile
\* coordinates before point coordinates; so is the carried dependence
\* S[i-1] -> S[i] of a single statement.
C5_NonNegativeTilable ==
    (mode = "main" /\ Analyzed) =>
        /\ NonNegative(getAllDependences(deps)) =>
               Legal(TiledSchedule, getAllDependences(deps))
        /\ (stmts = <<Carry>> /\ M = 1) =>
               Legal(TiledSchedule, getAllDependences(deps))

\* S[i-1] -> S[i] over 0 < i < 10, tiled by 2 and kept
C5_Witness ==
    /\ mode = "main" /\ Done("optimizeSchedule")
    /\ stmts = <<Carry>> /\ N = 10 /\ M = 1 /\ tile[1] = 2
    /\ Cardinality(deps.RAW) = 9
    /\ schedule = TiledSchedule

\* two schedules of the same instances execute them in the same order
SameOrder(a, b) ==
    \A x \in DOMAIN a.time, y \in DOMAIN a.time :
        LexLess(a.time[x], a.time[y]) <=> LexLess(b.time[x], b.time[y])

\* C6: tiling the band with tile sizes all 1 leaves the execution order of
\* the statement instances as it was.

C6_TileByOne ==
    (mode = "main" /\ tile = <<1, 1>>) =>
        /\ DOMAIN TiledSchedule.time = DOMAIN InitialSchedule.time
        /\ SameOrder(TiledSchedule, InitialSchedule)

\* a schedule tiled by (1,1) is installed on a domain with two rows and two
\* columns
C6_Witness ==
    /\ mode = "main" /\ Done("optimizeSchedule") /\ tile = <<1, 1>>
    /\ schedule.band = <<1, 1>> /\ N >= 2 /\ M >= 2

\* the loop body  C[i][j] = 0; C[i][j] += A[i][j];  over 0 <= i, j < 4
Scenario ==
    /\ mode = "main"
    /\ insts = << Inst("store", "C", 0, 0), Inst("load", "C", 0, 0),
                  Inst("load", "A", 0, 0), Inst("store", "C", 0, 0) >>
    /\ N = 4 /\ M = 4

\* C8: for S0: C[i][j] = 0, S1: C[i][j] += A[i][j] over a 4 x 4 domain the
\* computed RAW set is exactly { S0[i,j] -> S1[i,j] }, 16 edges, and the
\* tiled schedule is the one kept.

C8_TwoStatements ==
    (Scenario /\ Done("optimizeSchedule")) =>
        /\ { <<d.src, d.tgt>> : d \in deps.RAW } =
               { << <<i, j, 1>>, <<i, j, 2>> >> : i \in 0 .. 3, j \in 0 .. 3 }
        /\ schedule.band # <<>>

IsPrefix(a, b) == Len(a) <= Len(b) /\ \A p \in 1 .. Len(a) : a[p] = b[p]

\* C9: the steps of one run are executed in pipeline order, none twice:
\* model, dependences, schedule, code; code is generated only from a
\* schedule that has been set.

C9_PipelineOrder ==
    /\ mode = "main" =>
          IsPrefix(trace, << "detectScops", "buildScop", "analyzeDependencies",
                             "optimizeSchedule", "generateCode" >>)
    /\ mode = "pass" =>
          IsPrefix(trace, << "BuildScopPass", "DependenceAnalysisPass",
                             "OptimizeSchedulePass", "CodeGenPass" >>)
    /\ ast # NoAst => (Done("optimizeSchedule") \/ Done("OptimizeSchedulePass"))

\* both pipelines ran to their end on a function with a SCoP
C9_Witness ==
    \/ mode = "main" /\ pc = "done" /\ Len(trace) = 5 /\ ast # NoAst
    \/ mode = "pass" /\ pc = "pm" /\ queue = <<>> /\ Len(trace) = 4 /\ ast # NoAst

\* the function is not eligible or has no affine loop
NoScopDetected == mode = "pass" /\ (~ eligible \/ \A l \in 1 .. Len(loops) : ~ loops[l])

\* C10: when detection finds no SCoP, no model is attached, no pass changes
\* dependences, schedule or code, and every transform pass reports all
\* analyses preserved.

C10_NoScopFrame ==
    NoScopDetected =>
        /\ hasScop = FALSE /\ stmts = <<>>
        /\ deps = NoDependences /\ schedule = NoSchedule /\ ast = NoAst
        /\ \A p \in 1 .. Len(preserved) : preserved[p].result = "all"
        /\ [p \in 1 .. Len(preserved) |-> preserved[p].pass] =
               SelectSeq(trace, LAMBDA t : t # "DependenceAnalysisPass")

\* the whole pipeline ran on an ineligible function that has an affine loop
C10_Witness ==
    /\ NoScopDetected /\ ~ eligible /\ \E l \in 1 .. Len(loops) : loops[l]
    /\ pc = "pm" /\ queue = <<>> /\ Len(trace) = 4 /\ Len(preserved) = 3

====
